---- MODULE Spec2Model ----
(***************************************************************************)
(* Model of the Smart-Appetite-Manager agent tools:                        *)
(*   - receipt_agent/receipt_tools.py   (parse_receipt_text)               *)
(*   - inventory_manager_tools.py       (insert / list inventory)          *)
(*   - recipe_agent/mealdb_tools.py     (search / details / random meal)   *)
(* Python strings are sequences of one-character strings, so that regular  *)
(* expressions, str.replace, str.lower, str.strip and str.title are        *)
(* computed character by character as the interpreter computes them.       *)
(***************************************************************************)
EXTENDS Integers, Sequences, FiniteSets, TLC

\* ------------------------------------------------------------------------
\* Bounds of the model
\* ------------------------------------------------------------------------
\* receipt texts: at most MaxWords words of Vocab (lines, blank lines, keywords)
MaxWords == 3

\* receipt lines: at most MaxTokens tokens of QuantityVocab (numbers and units)
MaxTokens == 5

\* repeated calls: texts of at most MaxIdemWords words of IdemVocab
MaxIdemWords == 2

\* inventory: at most MaxRows rows in the table, at most MaxBatch items per
\* insert, limits up to MaxLimit
MaxRows == 3

MaxBatch == 2

MaxLimit == 4

\* recipe provider: at most MaxMeals recipes in an upstream answer
MaxMeals == 2

\* find_best_deals_batch: most items of a call, most deals check_local_flyers
\* lists for an item, most calls in a row
MaxItems == 2

MaxDeals == 2

MaxCalls == 2

\* ------------------------------------------------------------------------
\* Characters and Python str primitives
\* ------------------------------------------------------------------------
UpperLetters ==
  <<"A","B","C","D","E","F","G","H","I","J","K","L","M",
    "N","O","P","Q","R","S","T","U","V","W","X","Y","Z">>

LowerLetters ==
  <<"a","b","c","d","e","f","g","h","i","j","k","l","m",
    "n","o","p","q","r","s","t","u","v","w","x","y","z">>

DigitChars == <<"0","1","2","3","4","5","6","7","8","9">>

UpperSet == {UpperLetters[i] : i \in 1..26}

LowerSet == {LowerLetters[i] : i \in 1..26}

DigitSet == {DigitChars[i] : i \in 1..10}

\* str.lower() and str.upper() of one character, as lookup tables
LowerOf == [c \in UpperSet |-> LowerLetters[CHOOSE i \in 1..26 : UpperLetters[i] = c]]

UpperOf == [c \in LowerSet |-> UpperLetters[CHOOSE i \in 1..26 : LowerLetters[i] = c]]

DigitOf == [c \in DigitSet |-> (CHOOSE i \in 1..10 : DigitChars[i] = c) - 1]

IsUpper(c) == c \in UpperSet

IsLower(c) == c \in LowerSet

IsLetter(c) == IsUpper(c) \/ IsLower(c)

IsDigit(c) == c \in DigitSet

DigitVal(c) == DigitOf[c]

\* \s of the re module (ASCII whitespace that can occur in a str)
IsSpace(c) == c \in {" ", "\t", "\n", "\r"}

\* \w of the re module
IsWordChar(c) == IsLetter(c) \/ IsDigit(c) \/ c = "_"

LowerChar(c) == IF IsUpper(c) THEN LowerOf[c] ELSE c

UpperChar(c) == IF IsLower(c) THEN UpperOf[c] ELSE c

\* str.lower()
Lower(s) == SubSeq([i \in 1..Len(s) |-> LowerChar(s[i])], 1, Len(s))

\* str.title(): a cased character is upper-cased when it follows an
\* uncased character (or starts the string) and lower-cased otherwise
Title(s) ==
  SubSeq([i \in 1..Len(s) |->
            IF IsLetter(s[i])
              THEN IF i = 1 \/ ~IsLetter(s[i-1]) THEN UpperChar(s[i]) ELSE LowerChar(s[i])
              ELSE s[i]], 1, Len(s))

\* s[i:] and s[:i]
From(s, i) == SubSeq(s, i, Len(s))

\* s[k:k+len(w)] == w
OccursAt(s, w, k) ==
  /\ k >= 1
  /\ k + Len(w) - 1 <= Len(s)
  /\ \A j \in 1..Len(w) : s[k + j - 1] = w[j]

\* first index >= i at which w occurs in s, 0 when there is none (str.find)
RECURSIVE Find(_, _, _)
Find(s, w, i) ==
  IF i + Len(w) - 1 > Len(s) THEN 0
  ELSE IF OccursAt(s, w, i) THEN i
  ELSE Find(s, w, i + 1)

\* w in s
Contains(s, w) == \E k \in 1..(Len(s) - Len(w) + 1) : OccursAt(s, w, k)

\* s.replace(old, new): every non-overlapping occurrence, left to right
RECURSIVE Replace(_, _, _)
Replace(s, old, new) ==
  LET k == IF Len(old) = 0 THEN 0 ELSE Find(s, old, 1)
  IN IF k = 0 THEN s
     ELSE SubSeq(s, 1, k - 1) \o new \o Replace(From(s, k + Len(old)), old, new)

\* s.strip(chars)
StripChars(s, chars) ==
  LET keep == {i \in 1..Len(s) : s[i] \notin chars}
  IN IF keep = {} THEN <<>>
     ELSE SubSeq(s, CHOOSE i \in keep : \A k \in keep : i <= k,
                    CHOOSE i \in keep : \A k \in keep : i >= k)

\* s.strip()
Strip(s) == StripChars(s, {" ", "\t", "\n", "\r"})

\* s.splitlines(): "\n", "\r" and "\r\n" end a line; no empty last line
RECURSIVE SplitLines(_)
SplitLines(t) ==
  LET brk == {i \in 1..Len(t) : t[i] \in {"\n", "\r"}}
  IN IF t = <<>> THEN <<>>
     ELSE IF brk = {} THEN <<t>>
     ELSE LET i == CHOOSE k \in brk : \A h \in brk : k <= h
              n == IF t[i] = "\r" /\ i < Len(t) /\ t[i+1] = "\n" THEN i + 2 ELSE i + 1
          IN <<SubSeq(t, 1, i - 1)>> \o SplitLines(From(t, n))

\* re.sub(r"\s+", " ", s)
RECURSIVE CollapseSpaces(_)
CollapseSpaces(s) ==
  IF s = <<>> THEN <<>>
  ELSE IF IsSpace(s[1])
    THEN LET rest == {i \in 1..Len(s) : ~IsSpace(s[i])}
         IN IF rest = {} THEN <<" ">>
            ELSE <<" ">> \o CollapseSpaces(From(s, CHOOSE i \in rest : \A k \in rest : i <= k))
    ELSE <<s[1]>> \o CollapseSpaces(From(s, 2))

\* index after the longest run of digits / of whitespace starting at i
RECURSIVE DigitRunEnd(_, _)
DigitRunEnd(s, i) ==
  IF i <= Len(s) /\ IsDigit(s[i]) THEN DigitRunEnd(s, i + 1) ELSE i

RECURSIVE SpaceRunEnd(_, _)
SpaceRunEnd(s, i) ==
  IF i <= Len(s) /\ IsSpace(s[i]) THEN SpaceRunEnd(s, i + 1) ELSE i

\* int("...") of a run of digits
RECURSIVE DigitsToNat(_)
DigitsToNat(d) ==
  IF d = <<>> THEN 0 ELSE 10 * DigitsToNat(SubSeq(d, 1, Len(d) - 1)) + DigitVal(d[Len(d)])

RECURSIVE Pow10(_)
Pow10(n) == IF n = 0 THEN 1 ELSE 10 * Pow10(n - 1)

\* ------------------------------------------------------------------------
\* Values of the parser
\* ------------------------------------------------------------------------
\* Python None where a str is expected (no one-character element equals it)
None == <<"None">>

\* "no match" of an extractor (the extractor returns None)
NoMatch == [found |-> FALSE]

\* a Python int
PyInt(n) == [kind |-> "int", num |-> n, den |-> 1]

\* a Python float that is not a whole number, num/den with den a power of 10,
\* written in lowest terms so that equal floats are equal values
RECURSIVE PyFloat(_, _)
PyFloat(n, d) ==
  IF d > 1 /\ n % 10 = 0 THEN PyFloat(n \div 10, d \div 10)
  ELSE [kind |-> "float", num |-> n, den |-> d]

\* float(text) of a "\d+(\.\d+)?" token, as the fraction num/den
ParseDecimal(tok) ==
  LET dot == Find(tok, <<".">>, 1)
  IN IF dot = 0 THEN [num |-> DigitsToNat(tok), den |-> 1]
     ELSE [num |-> DigitsToNat(SubSeq(tok, 1, dot - 1) \o From(tok, dot + 1)),
           den |-> Pow10(Len(tok) - dot)]

\* ------------------------------------------------------------------------
\* Keyword tables
\* ------------------------------------------------------------------------
SKIP_KEYWORDS ==
  << <<"t","o","t","a","l">>,
     <<"s","u","b","t","o","t","a","l">>,
     <<"t","a","x">>,
     <<"c","h","a","n","g","e">>,
     <<"b","a","l","a","n","c","e">>,
     <<"c","a","s","h">>,
     <<"c","r","e","d","i","t">>,
     <<"d","e","b","i","t">>,
     <<"v","i","s","a">>,
     <<"m","a","s","t","e","r","c","a","r","d">>,
     <<"a","m","e","x">>,
     <<"p","a","y","m","e","n","t">>,
     <<"c","a","r","d">> >>

PACK_WORDS ==
  << <<"f","a","m","i","l","y"," ","p","a","c","k">>,
     <<"p","a","c","k">>,
     <<"b","o","x">>,
     <<"b","a","g">>,
     <<"b","o","t","t","l","e">>,
     <<"d","o","z","e","n">>,
     <<"l","o","a","f">>,
     <<"h","e","a","d">>,
     <<"t","u","b">>,
     <<"c","a","n">>,
     <<"j","a","r">> >>

\* unit alternations of the three regular expressions, in pattern order
WeightUnits == << <<"k","g">>, <<"g">> >>

VolumeUnits == << <<"l">>, <<"m","l">> >>

CountUnits ==
  << <<"x">>, <<"c","t">>, <<"p","c","s">>, <<"p","c">>,
     <<"e","a","c","h">>, <<"e","a">> >>

\* ------------------------------------------------------------------------
\* Regular expression pieces
\* ------------------------------------------------------------------------
\* (u1|u2|...)\b at position p, re.IGNORECASE: the first alternative, in
\* pattern order, that matches and is followed by a word boundary; 0 if none
UnitAt(s, p, units) ==
  LET ok == {k \in 1..Len(units) :
               /\ p + Len(units[k]) - 1 <= Len(s)
               /\ \A j \in 1..Len(units[k]) : LowerChar(s[p + j - 1]) = units[k][j]
               /\ (p + Len(units[k]) > Len(s) \/ ~IsWordChar(s[p + Len(units[k])]))}
  IN IF ok = {} THEN 0 ELSE CHOOSE k \in ok : \A h \in ok : k <= h

\* index after (\d+(?:\.\d+)?) matched greedily at i (s[i] is a digit)
NumEnd(s, i) ==
  LET j == DigitRunEnd(s, i)
  IN IF j + 1 <= Len(s) /\ s[j] = "." /\ IsDigit(s[j+1]) THEN DigitRunEnd(s, j + 1) ELSE j

\* (\d+(?:\.\d+)?)\s*(units)\b anchored at i
MeasureAt(s, i, units) ==
  IF ~IsDigit(s[i]) THEN NoMatch
  ELSE LET j == NumEnd(s, i)
           p == SpaceRunEnd(s, j)
           k == UnitAt(s, p, units)
       IN IF k = 0 THEN NoMatch
          ELSE [found |-> TRUE,
                value |-> SubSeq(s, i, j - 1),
                unit  |-> Lower(SubSeq(s, p, p + Len(units[k]) - 1)),
                match |-> SubSeq(s, i, p + Len(units[k]) - 1)]

\* the match m when there is one, and the alternative otherwise
OrElse(m, other) == IF m.found THEN m ELSE other

\* re.search of the pattern above: the leftmost start that matches
RECURSIVE MeasureSearchFrom(_, _, _)
MeasureSearchFrom(s, units, i) ==
  IF i > Len(s) THEN NoMatch
  ELSE OrElse(MeasureAt(s, i, units), MeasureSearchFrom(s, units, i + 1))

MeasureSearch(s, units) == MeasureSearchFrom(s, units, 1)

\* ------------------------------------------------------------------------
\* The extractors of receipt_tools.py
\* ------------------------------------------------------------------------
\* variant: the keywords are compared with the line as written
ShouldSkipExactCase(line) ==
  \E k \in 1..Len(SKIP_KEYWORDS) : Contains(line, SKIP_KEYWORDS[k])

\* _should_skip(line)
_should_skip(line) ==
  LET lower == Lower(line)
  IN \E k \in 1..Len(SKIP_KEYWORDS) : Contains(lower, SKIP_KEYWORDS[k])

\* "grams = value * 1000 if unit == 'kg' else value"
ToGrams(value, unit) ==
  IF unit = <<"k","g">> THEN [num |-> value.num * 1000, den |-> value.den] ELSE value

\* "int(grams) if grams.is_integer() else grams"
IntIfWhole(grams) ==
  IF grams.num % grams.den = 0
    THEN PyInt(grams.num \div grams.den)
    ELSE PyFloat(grams.num, grams.den)

\* what _extract_weight returns for the match of its pattern
WeightOfMatch(match) ==
  IF ~match.found THEN NoMatch
  ELSE [found |-> TRUE,
        quantity |-> IntIfWhole(ToGrams(ParseDecimal(match.value), match.unit)),
        quantity_unit |-> <<"g">>,
        match |-> match.match]

\* _extract_weight(line)
_extract_weight(line) == WeightOfMatch(MeasureSearch(line, WeightUnits))

\* what _extract_volume returns for the match of its pattern
VolumeOfMatch(match) ==
  IF ~match.found THEN NoMatch
  ELSE [found |-> TRUE,
        quantity |-> PyInt(1),
        quantity_unit |-> <<"u","n","i","t">>,
        unit |-> match.value \o match.unit,
        match |-> match.match]

\* _extract_volume(line)
_extract_volume(line) == VolumeOfMatch(MeasureSearch(line, VolumeUnits))

\* re.match(r"^\s*(\d+)\s+(.*)$", line): the working text holds no line
\* break, so (.*)$ takes everything after the whitespace run
LeadingCount(line) ==
  LET p == SpaceRunEnd(line, 1)
      j == DigitRunEnd(line, p)
  IN IF j > p /\ j <= Len(line) /\ IsSpace(line[j])
       THEN [found |-> TRUE, hasRest |-> TRUE,
             quantity |-> PyInt(DigitsToNat(SubSeq(line, p, j - 1))),
             match |-> line,
             rest |-> From(line, SpaceRunEnd(line, j))]
       ELSE NoMatch

\* \b(\d+)\s*(x|ct|pcs|pc|each|ea)\b anchored at i
MultiplierAt(line, i) ==
  IF ~IsDigit(line[i]) \/ (i > 1 /\ IsWordChar(line[i-1])) THEN NoMatch
  ELSE LET j == DigitRunEnd(line, i)
           p == SpaceRunEnd(line, j)
           k == UnitAt(line, p, CountUnits)
       IN IF k = 0 THEN NoMatch
          ELSE [found |-> TRUE, hasRest |-> FALSE,
                quantity |-> PyInt(DigitsToNat(SubSeq(line, i, j - 1))),
                match |-> SubSeq(line, i, p + Len(CountUnits[k]) - 1),
                rest |-> <<>>]

\* re.search(r"\b(\d+)\s*(x|ct|pcs|pc|each|ea)\b", line, re.IGNORECASE)
RECURSIVE MultiplierFrom(_, _)
MultiplierFrom(line, i) ==
  IF i > Len(line) THEN NoMatch
  ELSE OrElse(MultiplierAt(line, i), MultiplierFrom(line, i + 1))

MultiplierCount(line) == MultiplierFrom(line, 1)

\* variant: the multiplier rule is tried before the leading-integer rule
ExtractCountMultiplierFirst(line) == OrElse(MultiplierCount(line), LeadingCount(line))

\* _extract_count(line): hasRest stands for the "rest" key being present
_extract_count(line) == OrElse(LeadingCount(line), MultiplierCount(line))

\* the first word of _PACK_WORDS from index k on that lower contains
RECURSIVE FirstPackWord(_, _)
FirstPackWord(lower, k) ==
  IF k > Len(PACK_WORDS) THEN None
  ELSE IF Contains(lower, PACK_WORDS[k]) THEN PACK_WORDS[k]
  ELSE FirstPackWord(lower, k + 1)

\* _extract_pack_unit(line): the first word of _PACK_WORDS, in list order,
\* that the lower-cased line contains; None when there is none
_extract_pack_unit(line) == FirstPackWord(Lower(line), 1)

\* ------------------------------------------------------------------------
\* The line assembler: the body of the loop of parse_receipt_text
\* ------------------------------------------------------------------------
UNIT == <<"u","n","i","t">>

\* the four locals a line starts with; prev holds their values at the end
\* of the previous iteration, which the assignments overwrite
LineLocals(prev, line) ==
  [working |-> line, quantity |-> PyInt(1), quantity_unit |-> UNIT, unit |-> None]

\* the locals before the first iteration (unbound in Python)
Unbound == [working |-> <<>>, quantity |-> PyInt(0), quantity_unit |-> <<>>, unit |-> None]

\* lines 126-136: weight, else volume, sets the quantity slot and strips
\* the matched text
ApplyMeasure(st, weight, volume) ==
  IF weight.found
    THEN [st EXCEPT !.quantity = weight.quantity,
                    !.quantity_unit = weight.quantity_unit,
                    !.working = Replace(st.working, weight.match, <<" ">>)]
  ELSE IF volume.found
    THEN [st EXCEPT !.quantity = volume.quantity,
                    !.quantity_unit = volume.quantity_unit,
                    !.unit = volume.unit,
                    !.working = Replace(st.working, volume.match, <<" ">>)]
  ELSE st

\* variant: the count applies whenever it is found
CountAppliesWhenFound(count, quantity_unit) == count.found

\* "if count and quantity_unit == 'unit'"
CountApplies(count, quantity_unit) == count.found /\ quantity_unit = UNIT

\* lines 139-144: the count overrides the quantity and rewrites the working
\* text
ApplyCount(st, count) ==
  IF CountApplies(count, st.quantity_unit)
    THEN [st EXCEPT !.quantity = count.quantity,
                    !.working = IF count.hasRest THEN count.rest
                                ELSE Replace(st.working, count.match, <<" ">>)]
    ELSE st

\* "if not unit": None or the empty string
UnitUnset(unit) == unit = None \/ unit = <<>>

\* lines 148-150: sets unit and removes the keyword as str.replace does
ApplyPack(st, pack_unit) ==
  IF pack_unit # None
    THEN [st EXCEPT !.unit = pack_unit,
                    !.working = Replace(st.working, pack_unit, <<" ">>)]
    ELSE st

\* re.sub(r"\s+", " ", working).strip(" -")
ProductName(working) == StripChars(CollapseSpaces(working), {" ", "-"})

\* variant: the name is never taken to be empty
NameNeverEmpty(product_name) == FALSE

\* "if not product_name"
NameIsEmpty(product_name) == product_name = <<>>

\* the InventoryItem appended to items
MakeItem(product_name, st) ==
  [product_name |-> Title(product_name),
   quantity |-> st.quantity,
   quantity_unit |-> st.quantity_unit,
   unit |-> st.unit]

NoItem == [product_name |-> <<>>, quantity |-> PyInt(0), quantity_unit |-> <<>>, unit |-> None]

\* The trace of one non-blank line through the loop body: the line, which
\* extractors ran (ran), what each found, the locals after each stage
\* (st0..st3) and the outcome ("skipped" or "item").  Started is the trace
\* before any extractor has run, with the locals st0.
Started(line, st0) ==
  [line |-> line, ran |-> {}, outcome |-> "skipped", byKeyword |-> FALSE,
   weight |-> NoMatch, volume |-> NoMatch, count |-> NoMatch,
   countApplied |-> FALSE, pack |-> None,
   st0 |-> st0, st1 |-> st0, st2 |-> st0, st3 |-> st0,
   product_name |-> <<>>, item |-> NoItem]

\* line 125: weight = _extract_weight(working)
WeightStage(r) ==
  [r EXCEPT !.weight = _extract_weight(r.st0.working), !.ran = @ \cup {"weight"}]

\* line 131: volume = _extract_volume(working), in the else branch of weight
VolumeStage(r) ==
  IF r.weight.found THEN r
  ELSE [r EXCEPT !.volume = _extract_volume(r.st0.working), !.ran = @ \cup {"volume"}]

\* lines 126-136
MeasureStage(r) == [r EXCEPT !.st1 = ApplyMeasure(r.st0, r.weight, r.volume)]

\* line 138: count = _extract_count(working)
CountStage(r) ==
  [r EXCEPT !.count = _extract_count(r.st1.working), !.ran = @ \cup {"count"}]

\* lines 139-144
CountedStage(r) ==
  [r EXCEPT !.countApplied = CountApplies(r.count, r.st1.quantity_unit),
            !.st2 = ApplyCount(r.st1, r.count)]

\* lines 146-147: pack_unit = _extract_pack_unit(working) when unit is unset
PackStage(r) ==
  IF UnitUnset(r.st2.unit)
    THEN [r EXCEPT !.pack = _extract_pack_unit(r.st2.working), !.ran = @ \cup {"pack"}]
    ELSE r

\* lines 148-150
PackedStage(r) == [r EXCEPT !.st3 = ApplyPack(r.st2, r.pack)]

\* line 152
NameStage(r) == [r EXCEPT !.product_name = ProductName(r.st3.working)]

\* lines 153-164: the line is skipped, or the item is built
OutcomeStage(r) ==
  IF NameIsEmpty(r.product_name) THEN r
  ELSE [r EXCEPT !.outcome = "item", !.item = MakeItem(r.product_name, r.st3)]

\* One non-blank line through the loop body; prev holds the locals at the
\* end of the previous iteration.
Assemble(prev, line) ==
  IF _should_skip(line)
    THEN [Started(line, prev) EXCEPT !.byKeyword = TRUE]
    ELSE OutcomeStage(NameStage(PackedStage(PackStage(CountedStage(CountStage(
           MeasureStage(VolumeStage(WeightStage(
             Started(line, LineLocals(prev, line)))))))))))

\* variant: a line without product name is dropped, not appended
SkippedAfterKeywordOnly(skipped, r) ==
  IF r.byKeyword THEN Append(skipped, r.line) ELSE skipped

\* skipped after one line: keyword lines and lines without a product name
SkippedAfter(skipped, r) ==
  IF r.outcome = "skipped" THEN Append(skipped, r.line) ELSE skipped

\* items after one line
ItemsAfter(items, r) ==
  IF r.outcome = "item" THEN Append(items, r.item) ELSE items

\* the for loop over text.splitlines(); acc carries items, skipped, the
\* trace of the non-blank lines and the locals of the last iteration
\* acc after the iteration whose trace is r
AccAfter(acc, r) ==
  [items |-> ItemsAfter(acc.items, r),
   skipped |-> SkippedAfter(acc.skipped, r),
   log |-> Append(acc.log, r),
   locals |-> r.st3]

\* one iteration on the stripped line: a blank line changes nothing
Iteration(acc, line) ==
  IF line = <<>> THEN acc ELSE AccAfter(acc, Assemble(acc.locals, line))

RECURSIVE ParseLines(_, _)
ParseLines(lines, acc) ==
  IF lines = <<>> THEN acc
  ELSE ParseLines(Tail(lines), Iteration(acc, Strip(Head(lines))))

\* variant: only the empty string is rejected
NoTextOnlyEmpty(text) == text = <<>>

\* "if not text or not text.strip()"
NoText(text) == text = <<>> \/ Strip(text) = <<>>

\* variant: the list of the previous call is used again
KeepList(prev) == prev

\* items = [] and skipped = [] at the start of a call; prev is the list the
\* previous call built
NewList(prev) == <<>>

\* ------------------------------------------------------------------------
\* Inputs of parse_receipt_text
\* ------------------------------------------------------------------------
\* words of whole receipts: line breaks, blanks, hyphens, keywords in both cases
Vocab ==
  { <<"2">>, <<".">>, <<" ">>, <<"\n">>, <<"-">>,
    <<"g">>, <<"k","g">>, <<"l">>, <<"x">>,
    <<"p","a","c","k">>, <<"P","a","c","k">>, <<"T","a","x">> }

\* tokens of one receipt line: numbers, decimal point, weight, volume and
\* multiplier units ("x", "l", "g" alone are product names)
QuantityVocab ==
  { <<"2">>, <<".">>, <<" ">>, <<"g">>, <<"l">>, <<"x">> }

\* the concatenations of at most n elements of vocab
RECURSIVE Concats(_, _)
Concats(vocab, n) ==
  IF n = 0 THEN {<<>>}
  ELSE LET shorter == Concats(vocab, n - 1)
       IN shorter \cup {t \o w : t \in shorter, w \in vocab}

Texts == Concats(Vocab, MaxWords) \cup Concats(QuantityVocab, MaxTokens)

\* words of the texts parsed repeatedly: a product, a volume, a line break
IdemVocab == { <<"x">>, <<"2","l">>, <<"\n">> }

IdemTexts == Concats(IdemVocab, MaxIdemWords)

\* ------------------------------------------------------------------------
\* State
\* ------------------------------------------------------------------------
VARIABLES
  pc,        \* "called" when parse_receipt_text is entered, "done" after it,
             \* "returned" once the caller has the result
  text,      \* the argument of the call
  items,     \* the list items of the latest call
  skipped,   \* the list skipped of the latest call
  log,       \* trace of the loop: one Assemble record per non-blank line
  result,    \* the dict the call returned
  first,     \* an earlier call the caller remembers: its text, result, trace
  invDb,     \* the inventory table: rows in insertion order
  invCall,   \* the latest inventory tool call and its arguments
  invResult, \* the dict it returned
  mealCall,  \* the latest recipe tool call, its arguments, the upstream answer
  mealResult, \* the dict it returned, or the exception it raised
  batchCall  \* the find_best_deals_batch call in progress: its position, its
             \* locals, the trace of its lookups, and what it returned

parserVars == <<pc, text, items, skipped, log, result, first>>

invVars == <<invDb, invCall, invResult>>

mealVars == <<mealCall, mealResult>>

dealVars == <<batchCall>>

vars == <<pc, text, items, skipped, log, result, first,
          invDb, invCall, invResult, mealCall, mealResult, batchCall>>

NoResult == [status |-> "none"]

NoCall == [op |-> "none"]

NoFirst == [set |-> FALSE]

InitInventory ==
  /\ invDb = <<>>
  /\ invCall = NoCall
  /\ invResult = NoResult

InitMeals ==
  /\ mealCall = NoCall
  /\ mealResult = NoResult

\* no find_best_deals_batch call has been made
NoBatch ==
  [pc |-> "idle", call |-> 0, items |-> <<>>, tool_config |-> "<None>",
   item |-> "", deals |-> <<>>, address_cache |-> <<>>, enriched_deals |-> <<>>,
   results |-> <<>>, lookups |-> <<>>, flyers |-> <<>>, result |-> NoResult]

InitDeals == batchCall = NoBatch

InitParser(texts) ==
  /\ pc = "called"
  /\ text \in texts
  /\ items = <<>>
  /\ skipped = <<>>
  /\ log = <<>>
  /\ result = NoResult
  /\ first = NoFirst

\* ------------------------------------------------------------------------
\* parse_receipt_text
\* ------------------------------------------------------------------------
\* lines 166-167: the lists the loop built are returned
ReturnSuccess(acc) ==
  /\ items' = acc.items
  /\ skipped' = acc.skipped
  /\ log' = acc.log
  /\ result' = [status |-> "success", count |-> Len(acc.items),
                items |-> acc.items, skipped |-> acc.skipped]

\* parse_receipt_text(text)
parse_receipt_text ==
  /\ pc = "called"
  /\ pc' = "done"
  /\ IF NoText(text)
       THEN /\ result' = [status |-> "error", message |-> "No receipt text provided."]
            /\ UNCHANGED <<items, skipped, log>>
       ELSE ReturnSuccess(ParseLines(SplitLines(text),
                            [items |-> NewList(items), skipped |-> NewList(skipped),
                             log |-> <<>>, locals |-> Unbound]))
  /\ first' = IF first.set /\ first.text # text
                THEN [first EXCEPT !.between = TRUE] ELSE first
  /\ UNCHANGED <<text, invVars, mealVars, dealVars>>

\* the caller keeps the text and the result of a call to compare later ones
\* with it
Remember ==
  /\ pc = "done"
  /\ ~first.set
  /\ pc' = "returned"
  /\ first' = [set |-> TRUE, between |-> FALSE,
               text |-> text, result |-> result,
               log |-> IF result.status = "success" THEN log ELSE <<>>]
  /\ UNCHANGED <<text, items, skipped, log, result, invVars, mealVars, dealVars>>

\* the caller drops the result
Forget ==
  /\ pc = "done"
  /\ pc' = "returned"
  /\ UNCHANGED <<text, items, skipped, log, result, first, invVars, mealVars, dealVars>>

\* the caller calls parse_receipt_text again
CallAgain ==
  /\ pc = "returned"
  /\ pc' = "called"
  /\ text' \in IdemTexts
  /\ UNCHANGED <<items, skipped, log, result, first, invVars, mealVars, dealVars>>

\* one call of parse_receipt_text on a text of Texts
Init == InitParser(Texts) /\ InitInventory /\ InitMeals /\ InitDeals

Next == parse_receipt_text

Spec == Init /\ [][Next]_vars

\* calls of parse_receipt_text one after the other on texts of IdemTexts
InitIdem == InitParser(IdemTexts) /\ InitInventory /\ InitMeals /\ InitDeals

NextIdem ==
  \/ parse_receipt_text
  \/ Remember
  \/ Forget
  \/ CallAgain

SpecIdem == InitIdem /\ [][NextIdem]_vars

\* ------------------------------------------------------------------------
\* inventory_manager_tools.py
\* ------------------------------------------------------------------------
\* Python None / SQL NULL among the str values of the tools
PyNone == "<None>"

\* dict.get(key, default)
Get(d, key, default) == IF key \in DOMAIN d THEN d[key] ELSE default

\* bool(x) of an optional str
Truthy(x) == x # PyNone /\ x # ""

\* the item dicts handed to insert_inventory_items: a full one, and one
\* without the quantity and unit keys
InvItems ==
  { [product_name |-> "Milk", quantity |-> 2, quantity_unit |-> "unit", unit |-> "1l"],
    [product_name |-> "Rice", quantity_unit |-> "g"] }

RECURSIVE SeqsUpTo(_, _)
SeqsUpTo(S, n) ==
  IF n = 0 THEN {<<>>}
  ELSE LET shorter == SeqsUpTo(S, n - 1)
       IN shorter \cup {Append(q, x) : q \in shorter, x \in S}

\* the tuple bound to the INSERT statement for one item
RowOf(item) ==
  [product_name |-> Get(item, "product_name", PyNone),
   quantity |-> Get(item, "quantity", 0),
   quantity_unit |-> Get(item, "quantity_unit", PyNone),
   unit |-> Get(item, "unit", PyNone)]

\* the id the table gives a row inserted without an id: one more than the
\* greatest id in the table
NextId(db) ==
  IF db = <<>> THEN 1
  ELSE 1 + (CHOOSE m \in {db[i].id : i \in 1..Len(db)} :
               \A i \in 1..Len(db) : db[i].id <= m)

\* executemany of the INSERT statement: one row per tuple, in order
RECURSIVE InsertRows(_, _)
InsertRows(db, rows) ==
  IF rows = <<>> THEN db
  ELSE InsertRows(Append(db, [id |-> NextId(db)] @@ Head(rows)), Tail(rows))

\* ORDER BY id DESC
RECURSIVE OrderByIdDesc(_)
OrderByIdDesc(rows) ==
  IF rows = {} THEN <<>>
  ELSE LET top == CHOOSE r \in rows : \A q \in rows : q.id <= r.id
       IN <<top>> \o OrderByIdDesc(rows \ {top})

\* variant: ORDER BY id ASC
RECURSIVE OrderByIdAsc(_)
OrderByIdAsc(rows) ==
  IF rows = {} THEN <<>>
  ELSE LET low == CHOOSE r \in rows : \A q \in rows : q.id >= r.id
       IN <<low>> \o OrderByIdAsc(rows \ {low})

\* LIMIT ?: a negative limit is no limit
Limit(rows, limit) ==
  IF limit < 0 \/ limit >= Len(rows) THEN rows ELSE SubSeq(rows, 1, limit)

\* variant of SelectRows: the oldest rows first
SelectRowsAscending(db, limit) ==
  Limit(OrderByIdAsc({db[i] : i \in 1..Len(db)}), limit)

\* SELECT ... FROM inventory ORDER BY id DESC LIMIT ?  (created_at and
\* updated_at are filled by the table and are not part of the model)
SelectRows(db, limit) ==
  Limit(OrderByIdDesc({db[i] : i \in 1..Len(db)}), limit)

\* _get_db_path(tool_config): tool_config is None, or has or lacks db_path
ToolConfigs == { PyNone, "no-db_path", "inventory.db" }

_get_db_path(tool_config) ==
  IF tool_config \in {PyNone, "no-db_path"} THEN PyNone ELSE tool_config

\* insert_inventory_items(items, tool_config); storeOk is whether the
\* store accepts the statement and the commit, or raises sqlite3.Error
insert_inventory_items(batch, tool_config, storeOk) ==
  LET db_path == _get_db_path(tool_config)
      rows == [i \in 1..Len(batch) |-> RowOf(batch[i])]
  IN /\ Len(invDb) + Len(batch) <= MaxRows
     /\ invCall' = [op |-> "insert", items |-> batch, tool_config |-> tool_config,
                    before |-> Len(invDb)]
     /\ IF ~Truthy(db_path)
          THEN /\ invResult' = [status |-> "error",
                                message |-> "Missing db_path in tool_config."]
               /\ UNCHANGED invDb
        ELSE IF batch = <<>>
          THEN /\ invResult' = [status |-> "error", message |-> "No items provided."]
               /\ UNCHANGED invDb
        ELSE IF ~storeOk
          THEN /\ invResult' = [status |-> "error", message |-> "SQLite error"]
               /\ UNCHANGED invDb
        ELSE /\ invDb' = InsertRows(invDb, SubSeq(rows, 1, Len(batch)))
             /\ invResult' = [status |-> "success", inserted |-> Len(batch)]
     /\ UNCHANGED <<parserVars, mealVars, dealVars>>

\* list_inventory_items(limit, tool_config)
list_inventory_items(limit, tool_config, storeOk) ==
  LET db_path == _get_db_path(tool_config)
      rows == SelectRows(invDb, limit)
  IN /\ invCall' = [op |-> "list", limit |-> limit, tool_config |-> tool_config,
                    storeOk |-> storeOk]
     /\ IF ~Truthy(db_path)
          THEN invResult' = [status |-> "error",
                             message |-> "Missing db_path in tool_config."]
        ELSE IF ~storeOk
          THEN invResult' = [status |-> "error", message |-> "SQLite error"]
        ELSE invResult' = [status |-> "success", count |-> Len(rows), rows |-> rows]
     /\ UNCHANGED <<invDb, parserVars, mealVars, dealVars>>

InsertItems ==
  \E batch \in SeqsUpTo(InvItems, MaxBatch), tool_config \in ToolConfigs, storeOk \in BOOLEAN :
     insert_inventory_items(batch, tool_config, storeOk)

ListItems ==
  \E limit \in -1..MaxLimit, tool_config \in ToolConfigs, storeOk \in BOOLEAN :
     list_inventory_items(limit, tool_config, storeOk)

InitInv == InitParser({<<>>}) /\ InitInventory /\ InitMeals /\ InitDeals

NextInv == InsertItems \/ ListItems

SpecInv == InitInv /\ [][NextInv]_vars

\* ------------------------------------------------------------------------
\* recipe_agent/mealdb_tools.py
\* ------------------------------------------------------------------------
\* s.split(sep) for a one-character separator
RECURSIVE SplitOn(_, _)
SplitOn(s, sep) ==
  LET k == Find(s, <<sep>>, 1)
  IN IF k = 0 THEN <<s>>
     ELSE <<SubSeq(s, 1, k - 1)>> \o SplitOn(From(s, k + 1), sep)

\* the loop of _extract_ingredients over the parts
RECURSIVE IngredientsOf(_)
IngredientsOf(parts) ==
  IF parts = <<>> THEN <<>>
  ELSE LET item == Strip(StripChars(Strip(Head(parts)), {"-"}))
       IN (IF item # <<>> THEN <<[ingredient |-> item, measure |-> <<>>]>> ELSE <<>>)
            \o IngredientsOf(Tail(parts))

\* _extract_ingredients(raw)
_extract_ingredients(raw) ==
  LET cleaned == Strip(raw)
  IN IF cleaned = <<>> THEN <<>>
     ELSE IF Contains(cleaned, <<"|">>) THEN IngredientsOf(SplitOn(cleaned, "|"))
     ELSE IF Contains(cleaned, <<"\n">>) THEN IngredientsOf(SplitLines(cleaned))
     ELSE IngredientsOf(SplitOn(cleaned, ";"))

\* _get_api_key(tool_config): tool_config is None, or holds no key, a blank
\* key or a key
ApiConfigs == { PyNone, "", " ", "key" }

_get_api_key(tool_config) ==
  IF tool_config \in {PyNone, "", " "} THEN PyNone ELSE tool_config

\* max(1, min(int(max_results or 5), 10))
ClampResults(max_results) ==
  LET n == IF max_results = 0 THEN 5 ELSE max_results
      m == IF n < 10 THEN n ELSE 10
  IN IF m > 1 THEN m ELSE 1

\* the recipes of an upstream answer
Recipes ==
  { [title |-> "Soup", ingredients |-> <<"a","|","-","b">>, instructions |-> <<" ","s"," ">>],
    [title |-> PyNone, ingredients |-> <<"a",";"," ","b","\n">>, instructions |-> <<>>] }

\* What urlopen and json.loads make of a request: a non-2xx answer raises
\* HTTPError, a timeout raises TimeoutError, a body that is not JSON raises
\* JSONDecodeError; otherwise the body parses to a list of recipes, to a
\* list whose elements are not objects, or to a value that is not a list.
Upstream ==
  {[kind |-> k, data |-> <<>>] : k \in {"http_error", "timeout", "bad_body", "not_list"}}
    \cup {[kind |-> "list", data |-> d] : d \in SeqsUpTo(Recipes, MaxMeals)}
    \cup {[kind |-> "list_of_strings", data |-> <<"x">>]}

ExceptionOf(kind) ==
  CASE kind = "http_error" -> "HTTPError"
    [] kind = "timeout" -> "TimeoutError"
    [] kind = "bad_body" -> "JSONDecodeError"
    [] OTHER -> "AttributeError"

\* _fetch_json(url, headers): the parsed body, or the exception raised
_fetch_json(up) ==
  IF up.kind \in {"http_error", "timeout", "bad_body"}
    THEN [raised |-> TRUE, exception |-> ExceptionOf(up.kind)]
    ELSE [raised |-> FALSE, kind |-> up.kind, data |-> up.data]

\* an exception that leaves the tool function
Raised(exception) == [status |-> "raised", exception |-> exception]

\* the "meal" dict of get_meal_details and get_random_meal
MealOf(idMeal, meal) ==
  [idMeal |-> idMeal, name |-> meal.title,
   category |-> PyNone, area |-> PyNone, tags |-> PyNone, youtube |-> PyNone,
   source |-> PyNone, thumbnail |-> PyNone,
   ingredients |-> _extract_ingredients(meal.ingredients),
   instructions |-> Strip(meal.instructions)]

\* the result of search_meals
SearchResult(query, ingredient, category, area, max_results, tool_config, up) ==
  LET n == ClampResults(max_results)
      api_key == _get_api_key(tool_config)
      data == _fetch_json(up)
      meals == IF Len(data.data) > n THEN SubSeq(data.data, 1, n) ELSE data.data
  IN IF ~Truthy(api_key)
       THEN [status |-> "error", message |-> "API_NINJAS_API_KEY is required"]
     ELSE IF ~(Truthy(query) \/ Truthy(ingredient) \/ Truthy(category) \/ Truthy(area))
       THEN [status |-> "error",
             message |-> "Provide at least one of: query, ingredient, category, area"]
     ELSE IF data.raised THEN Raised(data.exception)
     ELSE IF data.kind = "not_list"
       THEN [status |-> "error", message |-> "Unexpected API response"]
     ELSE IF data.kind = "list_of_strings" THEN Raised("AttributeError")
     ELSE [status |-> "success", count |-> Len(meals),
           meals |-> [i \in 1..Len(meals) |->
                        [idMeal |-> IF Truthy(meals[i].title) THEN meals[i].title
                                    ELSE "recipe-" \o ToString(i),
                         strMeal |-> meals[i].title,
                         strMealThumb |-> PyNone]]]

\* the search term of the request: the first argument that is given
SearchTerm(query, ingredient, category, area) ==
  IF Truthy(query) THEN query
  ELSE IF Truthy(ingredient) THEN ingredient
  ELSE IF Truthy(category) THEN category
  ELSE area

\* search_meals(query, ingredient, category, area, max_results, tool_config)
search_meals(query, ingredient, category, area, max_results, tool_config, up) ==
  /\ mealCall' = [op |-> "search_meals", tool_config |-> tool_config,
                  valid |-> Truthy(query) \/ Truthy(ingredient) \/ Truthy(category)
                              \/ Truthy(area),
                  term |-> SearchTerm(query, ingredient, category, area),
                  limit |-> ClampResults(max_results),
                  upstream |-> up]
  /\ mealResult' = SearchResult(query, ingredient, category, area, max_results,
                                tool_config, up)
  /\ UNCHANGED <<parserVars, invVars, dealVars>>

\* get_meal_details(meal_id, tool_config)
get_meal_details(meal_id, tool_config, up) ==
  LET api_key == _get_api_key(tool_config)
      data == _fetch_json(up)
  IN /\ mealCall' = [op |-> "get_meal_details", tool_config |-> tool_config,
                     valid |-> Truthy(meal_id), term |-> meal_id, limit |-> 1,
                     upstream |-> up]
     /\ mealResult' =
          IF ~Truthy(meal_id)
            THEN [status |-> "error", message |-> "meal_id is required"]
          ELSE IF ~Truthy(api_key)
            THEN [status |-> "error", message |-> "API_NINJAS_API_KEY is required"]
          ELSE IF data.raised THEN Raised(data.exception)
          ELSE IF data.kind = "not_list"
            THEN [status |-> "error", message |-> "Unexpected API response"]
          ELSE IF data.data = <<>>
            THEN [status |-> "error", message |-> "No meal found for id=" \o meal_id]
          ELSE IF data.kind = "list_of_strings" THEN Raised("AttributeError")
          ELSE [status |-> "success", meal |-> MealOf(meal_id, data.data[1])]
     /\ UNCHANGED <<parserVars, invVars, dealVars>>

seed_queries ==
  <<"chicken", "beef", "pasta", "salad", "soup", "tofu", "seafood", "rice",
    "vegetarian", "dessert">>

\* get_random_meal(tool_config); seed and pick are the two random.choice
get_random_meal(tool_config, up, seed, pick) ==
  LET api_key == _get_api_key(tool_config)
      data == _fetch_json(up)
  IN /\ mealCall' = [op |-> "get_random_meal", tool_config |-> tool_config,
                     valid |-> TRUE, term |-> seed_queries[seed], limit |-> 10,
                     upstream |-> up]
     /\ mealResult' =
          IF ~Truthy(api_key)
            THEN [status |-> "error", message |-> "API_NINJAS_API_KEY is required"]
          ELSE IF data.raised THEN Raised(data.exception)
          ELSE IF data.kind = "not_list" \/ data.data = <<>>
            THEN [status |-> "error", message |-> "No random meal returned"]
          ELSE IF data.kind = "list_of_strings" THEN Raised("AttributeError")
          ELSE LET meal == data.data[IF pick <= Len(data.data) THEN pick ELSE 1]
               IN [status |-> "success", meal |-> MealOf(meal.title, meal)]
     /\ UNCHANGED <<parserVars, invVars, dealVars>>

\* the values of an optional str argument: None, empty, given
OptArgs == { PyNone, "", "rice" }

SearchMeals ==
  \E query \in OptArgs, ingredient \in OptArgs, category \in {PyNone}, area \in {PyNone},
     max_results \in {0, 1, 20}, tool_config \in ApiConfigs, up \in Upstream :
     search_meals(query, ingredient, category, area, max_results, tool_config, up)

GetMealDetails ==
  \E meal_id \in OptArgs, tool_config \in ApiConfigs, up \in Upstream :
     get_meal_details(meal_id, tool_config, up)

GetRandomMeal ==
  \E tool_config \in ApiConfigs, up \in Upstream,
     seed \in 1..Len(seed_queries), pick \in 1..MaxMeals :
     get_random_meal(tool_config, up, seed, pick)

InitMealTools == InitParser({<<>>}) /\ InitInventory /\ InitMeals /\ InitDeals

NextMeals == SearchMeals \/ GetMealDetails \/ GetRandomMeal

SpecMeals == InitMealTools /\ [][NextMeals]_vars

\* ------------------------------------------------------------------------
\* shopper_agent/grocery_tools.py
\* ------------------------------------------------------------------------
\* tool_config is None, or has or lacks serpapi_key
ShopConfigs == { PyNone, "no-serpapi_key", "key" }

\* tool_config.get("serpapi_key") if tool_config else None
SerpApiKey(tool_config) ==
  IF tool_config \in {PyNone, "no-serpapi_key"} THEN PyNone ELSE tool_config

\* the items asked for and the stores the flyers name
GroceryItems == { "milk", "eggs" }

Stores == { "Metro", "Loblaws" }

\* the default of the location parameter
DefaultLocation == "Ottawa, Ontario, Canada"

accepted_cities ==
  << <<"o","t","t","a","w","a">>,
     <<"n","e","p","e","a","n">>,
     <<"k","a","n","a","t","a">>,
     <<"g","l","o","u","c","e","s","t","e","r">>,
     <<"o","r","l","e","a","n","s">>,
     <<"v","a","n","i","e","r">>,
     <<"b","a","r","r","h","a","v","e","n">>,
     <<"s","t","i","t","t","s","v","i","l","l","e">>,
     <<"g","a","t","i","n","e","a","u">> >>

\* addresses a maps result can carry: none, one outside the accepted
\* cities, and accepted ones in two spellings
Addresses ==
  { <<>>, <<"T","o","r","o","n","t","o">>,
    <<"1"," ","O","t","t","a","w","a">>, <<"K","A","N","A","T","A">> }

\* What the maps request of find_nearest_store_address yields: the request
\* or resp.json() raises, or the body has no local_results, or a first
\* local result with or without an address
MapsUpstream ==
  { [kind |-> "exception"],
    [kind |-> "results", local_results |-> <<>>],
    [kind |-> "results", local_results |-> << [title |-> "store"] >>] }
    \cup {[kind |-> "results", local_results |-> << [address |-> a] >>] : a \in Addresses}

\* any(city in address_lower for city in accepted_cities)
InAcceptedCity(address) ==
  \E c \in 1..Len(accepted_cities) : Contains(Lower(address), accepted_cities[c])

\* find_nearest_store_address(store_name, location, tool_config); up is
\* what the maps request yields
find_nearest_store_address(store_name, location, tool_config, up) ==
  IF ~Truthy(SerpApiKey(tool_config)) THEN None
  ELSE IF up.kind = "exception" THEN None
  ELSE IF up.local_results = <<>> THEN None
  ELSE IF InAcceptedCity(Get(up.local_results[1], "address", <<>>))
    THEN Get(up.local_results[1], "address", <<>>)
  ELSE None

\* the deals check_local_flyers lists: one per store
FlyerDeals ==
  {[store |-> s, price |-> "$2.99", item |-> "title", link |-> "url", snippet |-> ""] :
     s \in Stores}

\* what check_local_flyers returns: an error (always, without an API key),
\* not_found, or success with at most limit deals
FlyerResponses(tool_config) ==
  IF ~Truthy(SerpApiKey(tool_config))
    THEN {[status |-> "error", message |-> "SerpApi key is missing."]}
    ELSE {[status |-> "error", message |-> "API failure"],
          [status |-> "not_found", message |-> "No sales found."]}
           \cup {[status |-> "success", deals |-> d] : d \in SeqsUpTo(FlyerDeals, MaxDeals)}

\* d[key] = value
Put(d, key, value) == (key :> value) @@ d

\* "if address": neither None nor empty
HasAddress(address) == address # None /\ address # <<>>

\* the option appended for a deal with a verified address
Option(deal, address) ==
  [store |-> deal.store,
   address |-> address,
   price |-> Get(deal, "price", PyNone),
   item_title |-> Get(deal, "item", PyNone),
   link |-> Get(deal, "product_link", PyNone)]

\* lines 279-284: the entry of results for the item
ItemResult(success, enriched_deals) ==
  IF ~success THEN [found |-> FALSE, note |-> "No flyer deals found."]
  ELSE IF enriched_deals # <<>> THEN [found |-> TRUE, options |-> enriched_deals]
  ELSE [found |-> FALSE, note |-> "No verified local Ottawa deals found."]

\* results[item] = ...
StoreResult(b, success) ==
  [b EXCEPT !.results = Put(@, b.item, ItemResult(success, b.enriched_deals))]

\* the next iteration of "for item in items", or the return of line 286
\* when no item is left (b.items holds the items not yet started)
Advance(b) ==
  IF b.items = <<>>
    THEN [b EXCEPT !.pc = "done",
                   !.result = [status |-> "success", summary |-> b.results,
                               location_used |-> DefaultLocation]]
    ELSE [b EXCEPT !.pc = "flyers", !.item = Head(b.items), !.items = Tail(b.items)]

\* the response of check_local_flyers for the item: its deals, and a new
\* enriched_deals list
WithFlyers(b, deals) ==
  [b EXCEPT !.flyers = Put(@, b.item, deals), !.enriched_deals = <<>>, !.deals = deals]

\* "for deal in ...": the next deal, or the end of the item's iteration
AfterDeals(b, success) ==
  IF b.deals # <<>> THEN [b EXCEPT !.pc = "deals"]
  ELSE Advance(StoreResult(b, success))

\* lines 270-277 for the deal at the head of b.deals
WithDeal(b, deal, address) ==
  [b EXCEPT !.enriched_deals = IF HasAddress(address)
                                  THEN Append(@, Option(deal, address)) ELSE @,
            !.deals = Tail(@)]

\* lines 266-267 and 270-277: the lookup for the deal at the head of
\* b.deals has returned address; lookups is the trace of the calls of
\* find_nearest_store_address
Looked(b, address) ==
  WithDeal([b EXCEPT !.address_cache = Put(@, Head(b.deals).store, address),
                     !.lookups = Append(@, [store |-> Head(b.deals).store,
                                            address |-> address])],
           Head(b.deals), address)

\* variant: a cached None counts as a miss
InCacheWithAddress(store_name, address_cache) ==
  store_name \in DOMAIN address_cache /\ HasAddress(address_cache[store_name])

\* "if store_name in address_cache"
InCache(store_name, address_cache) == store_name \in DOMAIN address_cache

\* find_best_deals_batch(items, location, tool_context, tool_config) up to
\* its first await: results = {}, address_cache = {}
find_best_deals_batch ==
  /\ batchCall.pc \in {"idle", "done"}
  /\ batchCall.call < MaxCalls
  /\ \E its \in SeqsUpTo(GroceryItems, MaxItems), tool_config \in ShopConfigs :
        batchCall' = Advance([NoBatch EXCEPT !.call = batchCall.call + 1,
                                             !.items = its,
                                             !.tool_config = tool_config])
  /\ UNCHANGED <<parserVars, invVars, mealVars>>

\* lines 256-260: check_local_flyers has returned for the item
FlyersChecked ==
  /\ batchCall.pc = "flyers"
  /\ \E response \in FlyerResponses(batchCall.tool_config) :
        batchCall' = AfterDeals(WithFlyers(batchCall, Get(response, "deals", <<>>)),
                                response.status = "success")
  /\ UNCHANGED <<parserVars, invVars, mealVars>>

\* lines 261-264 and 270-277: the store of the deal is in the cache
CachedAddress ==
  /\ batchCall.pc = "deals"
  /\ InCache(Head(batchCall.deals).store, batchCall.address_cache)
  /\ batchCall' = AfterDeals(WithDeal(batchCall, Head(batchCall.deals),
                               batchCall.address_cache[Head(batchCall.deals).store]),
                             TRUE)
  /\ UNCHANGED <<parserVars, invVars, mealVars>>

\* lines 261-262, 265-267 and 270-277: the store is looked up
LookupAddress ==
  /\ batchCall.pc = "deals"
  /\ ~InCache(Head(batchCall.deals).store, batchCall.address_cache)
  /\ \E up \in MapsUpstream :
        batchCall' = AfterDeals(Looked(batchCall,
                                  find_nearest_store_address(Head(batchCall.deals).store,
                                    DefaultLocation, batchCall.tool_config, up)),
                                TRUE)
  /\ UNCHANGED <<parserVars, invVars, mealVars>>

InitBatch == InitParser({<<>>}) /\ InitInventory /\ InitMeals /\ InitDeals

NextBatch == find_best_deals_batch \/ FlyersChecked \/ CachedAddress \/ LookupAddress

SpecBatch == InitBatch /\ [][NextBatch]_vars

\* ------------------------------------------------------------------------
\* Properties of parse_receipt_text
\* ------------------------------------------------------------------------
\* the lines of t that are not blank, stripped, in order
NonBlankLines(t) ==
  LET lines == SplitLines(t)
      stripped == [i \in 1..Len(lines) |-> Strip(lines[i])]
  IN SelectSeq(SubSeq(stripped, 1, Len(lines)), LAMBDA l : l # <<>>)

\* every character of s is whitespace
AllSpace(s) == \A i \in 1..Len(s) : IsSpace(s[i])

\* the positions of the trace with the given outcome
WithOutcome(o) == {k \in 1..Len(log) : log[k].outcome = o}

\* C1: for a text that is not empty or whitespace-only, every non-blank line
\* goes to exactly one of items and skipped: the lengths of the two returned
\* lists add up to the number of non-blank lines, each line is handled once
\* and in order, and no blank line is in either list.
C1_EveryLineInOneList ==
  (pc = "done" /\ ~AllSpace(text)) =>
     LET lines == NonBlankLines(text)
     IN /\ Len(result.items) + Len(result.skipped) = Len(lines)
        /\ Len(log) = Len(lines)
        /\ \A k \in 1..Len(log) : log[k].line = lines[k]
        /\ Len(result.items) = Cardinality(WithOutcome("item"))
        /\ Len(result.skipped) = Cardinality(WithOutcome("skipped"))
        /\ \A j \in 1..Len(result.skipped) : ~AllSpace(result.skipped[j])

\* a text with a blank line before a line that is not blank has been parsed
C1_Witness ==
  /\ pc = "done"
  /\ result.status = "success"
  /\ Len(SplitLines(text)) > Len(NonBlankLines(text))
  /\ Strip(SplitLines(text)[1]) = <<>>
  /\ Len(result.items) + Len(result.skipped) >= 1

\* C2: on a line where the volume extractor matches (no weight token), the
\* emitted item has quantity 1, quantity_unit "unit" and unit the matched
\* value+unit string, and the count extractor does not change the quantity.
C2_VolumeKeepsQuantityOne ==
  \A k \in 1..Len(log) :
     (log[k].volume.found /\ log[k].outcome = "item") =>
        /\ log[k].item.quantity = PyInt(1)
        /\ log[k].item.quantity_unit = UNIT
        /\ log[k].item.unit = log[k].volume.unit
        /\ ~log[k].countApplied

\* the weight in grams a matched weight token stands for: its number, times
\* 1000 when its unit is kg
GramsOf(match) ==
  LET value == ParseDecimal(SubSeq(match, 1, NumEnd(match, 1) - 1))
      kg == Len(match) >= 2 /\ LowerChar(match[Len(match) - 1]) = "k"
      num == IF kg THEN value.num * 1000 ELSE value.num
  IN IF num % value.den = 0 THEN PyInt(num \div value.den) ELSE PyFloat(num, value.den)

IsPackKeyword(line) == \E k \in 1..Len(PACK_WORDS) : Lower(line) = PACK_WORDS[k]

\* C5: a line that is purely a pack keyword, recognised case-insensitively,
\* is routed to skipped and yields no item.
C5_PureKeywordSkipped ==
  \A k \in 1..Len(log) :
     IsPackKeyword(log[k].line) => log[k].outcome = "skipped"

\* the line contains the keyword w, compared without regard to case
ContainsIgnoreCase(line, w) ==
  \E i \in 1..(Len(line) - Len(w) + 1) :
     \A j \in 1..Len(w) : LowerChar(line[i + j - 1]) = w[j]

HasSkipKeyword(line) ==
  \E k \in 1..Len(SKIP_KEYWORDS) : ContainsIgnoreCase(line, SKIP_KEYWORDS[k])

\* C6: every line that contains a skip keyword, in any case and as a
\* substring, is placed in skipped, yields no item, and no extractor runs
\* on it.
C6_SkipKeywordLines ==
  \A k \in 1..Len(log) :
     HasSkipKeyword(log[k].line) =>
        /\ log[k].outcome = "skipped"
        /\ log[k].ran = {}
        /\ \E j \in 1..Len(result.skipped) : result.skipped[j] = log[k].line
        /\ Cardinality(WithOutcome("item")) = Len(result.items)

\* a line that holds a skip keyword inside a longer text, not in lower case,
\* has been parsed
C6_Witness ==
  /\ pc = "done"
  /\ \E k \in 1..Len(log) :
        /\ HasSkipKeyword(log[k].line)
        /\ Len(log[k].line) > 3
        /\ Lower(log[k].line) # log[k].line

\* C7: the empty string and whitespace-only text give status "error" with a
\* message and neither items nor skipped; every other text gives "success".
C7_InputValidation ==
  pc = "done" =>
     IF AllSpace(text)
       THEN /\ result.status = "error"
            /\ DOMAIN result = {"status", "message"}
            /\ result.message # ""
       ELSE /\ result.status = "success"
            /\ {"items", "skipped"} \subseteq DOMAIN result

\* a whitespace-only text that is not empty has been rejected
C7_Witness ==
  /\ pc = "done"
  /\ text # <<>>
  /\ AllSpace(text)
  /\ result.status = "error"

\* nothing but whitespace and hyphens: empty after the whitespace collapse
\* and the strip of spaces and hyphens
OnlySpacesAndHyphens(w) == \A i \in 1..Len(w) : IsSpace(w[i]) \/ w[i] = "-"

\* C8: every emitted item has a non-empty product_name; a line whose working
\* text is empty after normalisation is appended to skipped and yields no
\* item.
C8_NameNonEmpty ==
  pc = "done" /\ result.status = "success" =>
     /\ \A i \in 1..Len(result.items) : result.items[i].product_name # <<>>
     /\ \A k \in 1..Len(log) :
          (~log[k].byKeyword /\ OnlySpacesAndHyphens(log[k].st3.working)) =>
             /\ log[k].outcome = "skipped"
             /\ \E j \in 1..Len(result.skipped) : result.skipped[j] = log[k].line
     /\ Len(result.items) = Cardinality(WithOutcome("item"))

\* a line without skip keyword was left with hyphens and spaces only
C8_Witness ==
  /\ pc = "done"
  /\ \E k \in 1..Len(log) :
        /\ ~log[k].byKeyword
        /\ log[k].st3.working # <<>>
        /\ \E i \in 1..Len(log[k].st3.working) : log[k].st3.working[i] = "-"
        /\ OnlySpacesAndHyphens(log[k].st3.working)
        /\ log[k].outcome = "skipped"

MinOf(a, b) == IF a <= b THEN a ELSE b

\* C9: after any sequence of successful inserts, each adding one row per
\* item, list with limit N >= 0 returns "success" with min(N, rows stored)
\* rows, those with the greatest ids, by strictly descending id, and count
\* is the number of rows returned.
C9_ListNewestFirst ==
  /\ (invCall.op = "insert" /\ invResult.status = "success") =>
        /\ Len(invDb) = invCall.before + Len(invCall.items)
        /\ invResult.inserted = Len(invCall.items)
        /\ \A i \in 1..Len(invCall.items) :
              invDb[invCall.before + i].product_name = invCall.items[i].product_name
  /\ \A i, j \in 1..Len(invDb) : i < j => invDb[i].id < invDb[j].id
  /\ (invCall.op = "list" /\ invCall.tool_config = "inventory.db"
        /\ invCall.storeOk /\ invCall.limit >= 0) =>
        LET rows == invResult.rows
        IN /\ invResult.status = "success"
           /\ Len(rows) = MinOf(invCall.limit, Len(invDb))
           /\ invResult.count = Len(rows)
           /\ \A i \in 1..Len(rows) : \E k \in 1..Len(invDb) : invDb[k] = rows[i]
           /\ \A i, j \in 1..Len(rows) : i < j => rows[i].id > rows[j].id
           /\ \A k \in 1..Len(invDb) :
                 (\A i \in 1..Len(rows) : rows[i] # invDb[k]) =>
                    \A i \in 1..Len(rows) : rows[i].id > invDb[k].id

\* a list call with 2 <= N < number of stored rows has succeeded
C9_Witness ==
  /\ invCall.op = "list"
  /\ invResult.status = "success"
  /\ invCall.limit >= 2
  /\ invCall.limit < Len(invDb)

\* ------------------------------------------------------------------------
\* Properties of the recipe tools
\* ------------------------------------------------------------------------
\* C4: when search_meals, get_meal_details or get_random_meal is called with
\* an API key and valid arguments and the upstream request fails (non-2xx
\* answer, timeout, malformed body), the call returns status "error" with a
\* message and no exception reaches the caller.
C4_UpstreamFailureIsErrorResult ==
  (/\ mealCall.op \in {"search_meals", "get_meal_details", "get_random_meal"}
   /\ mealCall.tool_config = "key"
   /\ mealCall.valid
   /\ mealCall.upstream.kind \in {"http_error", "timeout", "bad_body"}) =>
     /\ mealResult.status = "error"
     /\ "message" \in DOMAIN mealResult

\* ------------------------------------------------------------------------
\* Properties of the pack-unit, weight and count stages
\* ------------------------------------------------------------------------
\* the starts of the occurrences of w in s, compared without regard to case
StartsIgnoreCase(s, w) ==
  {i \in 1..(Len(s) - Len(w) + 1) : \A j \in 1..Len(w) : LowerChar(s[i + j - 1]) = w[j]}

\* the least element of a non-empty set of numbers
Least(S) == CHOOSE i \in S : \A h \in S : i <= h

\* s with the span of length n at i replaced by one space
WithoutSpan(s, i, n) == SubSeq(s, 1, i - 1) \o <<" ">> \o From(s, i + n)

\* the first keyword of the pack list, in list order, that s contains in
\* any case; None when there is none
PackKeywordOf(s) ==
  LET ks == {k \in 1..Len(PACK_WORDS) : StartsIgnoreCase(s, PACK_WORDS[k]) # {}}
  IN IF ks = {} THEN None ELSE PACK_WORDS[Least(ks)]

\* C11: when the volume extractor set no unit and the working text contains
\* a pack keyword in any case, unit is the first such keyword in list order
\* and the working text loses the first textual occurrence of the keyword,
\* and nothing else.
C11_PackKeywordRemoved ==
  \A k \in 1..Len(log) :
     (/\ ~log[k].byKeyword
      /\ UnitUnset(log[k].st2.unit)
      /\ PackKeywordOf(log[k].st2.working) # None) =>
           LET w == PackKeywordOf(log[k].st2.working)
               i == Least(StartsIgnoreCase(log[k].st2.working, w))
           IN /\ log[k].st3.unit = w
              /\ log[k].st3.working = WithoutSpan(log[k].st2.working, i, Len(w))

\* the starts of the weight tokens of s
WeightStarts(s) == {i \in 1..Len(s) : MeasureAt(s, i, WeightUnits).found}

\* C12: only the leftmost weight token of a line is used: the quantity is
\* that token's weight and the working text loses exactly that token's
\* span; the rest of the line, later weight tokens and other text that
\* equals or contains the matched substring included, is unchanged.
C12_FirstWeightTokenOnly ==
  \A k \in 1..Len(log) :
     (~log[k].byKeyword /\ WeightStarts(log[k].st0.working) # {}) =>
        LET s == log[k].st0.working
            i == Least(WeightStarts(s))
            m == MeasureAt(s, i, WeightUnits).match
        IN /\ log[k].weight.found
           /\ log[k].weight.match = m
           /\ log[k].st1.quantity = GramsOf(m)
           /\ log[k].st1.working = WithoutSpan(s, i, Len(m))

\* the starts of the "integer, multiplier token" matches of s
MultiplierStarts(s) == {i \in 1..Len(s) : MultiplierAt(s, i).found}

\* s starts with an integer followed by whitespace
StartsWithCount(s) ==
  /\ s # <<>>
  /\ IsDigit(s[1])
  /\ DigitRunEnd(s, 1) <= Len(s)
  /\ IsSpace(s[DigitRunEnd(s, 1)])

\* the lines C13 is about: no weight token, and the working text the count
\* extractor sees starts with an integer and whitespace and holds a
\* multiplier match
CountOrderLines ==
  {k \in 1..Len(log) :
     /\ ~log[k].byKeyword
     /\ WeightStarts(log[k].line) = {}
     /\ StartsWithCount(log[k].st1.working)
     /\ MultiplierStarts(log[k].st1.working) # {}}

\* the leading-integer rule applied to line k: the quantity is the leading
\* integer and the working text is the remainder after the whitespace
LeadingRuleApplied(k) ==
  LET s == log[k].st1.working
      j == DigitRunEnd(s, 1)
  IN /\ log[k].countApplied
     /\ log[k].count.hasRest
     /\ log[k].st2.quantity = PyInt(DigitsToNat(SubSeq(s, 1, j - 1)))
     /\ log[k].st2.working = From(s, SpaceRunEnd(s, j))

\* the multiplier match of line k that starts at i is in the working text
\* after the count stage, where the remainder put it
MultiplierStays(k, i) ==
  LET s == log[k].st1.working
      r == SpaceRunEnd(s, DigitRunEnd(s, 1))
      m == MultiplierAt(s, i).match
  IN /\ i >= r
     /\ i - r + Len(m) <= Len(log[k].st2.working)
     /\ SubSeq(log[k].st2.working, i - r + 1, i - r + Len(m)) = m

\* C13 as stated: on such a line only the leading-integer rule applies, and
\* every multiplier token and its number stay in the working text.
C13_MultiplierAlwaysStays ==
  \A k \in CountOrderLines :
     /\ LeadingRuleApplied(k)
     /\ \A i \in MultiplierStarts(log[k].st1.working) : MultiplierStays(k, i)

\* C13, amended: on such a line only the leading-integer rule applies, and
\* every multiplier token whose number is not the leading integer itself
\* stays, with its number, in the working text.
C13_LeadingCountKeepsRemainder ==
  \A k \in CountOrderLines :
     /\ LeadingRuleApplied(k)
     /\ \A i \in MultiplierStarts(log[k].st1.working) : i # 1 => MultiplierStays(k, i)

\* a line with a leading integer and a later multiplier token has produced
\* an item
C13_Witness ==
  /\ pc = "done"
  /\ \E k \in CountOrderLines :
        /\ log[k].outcome = "item"
        /\ \E i \in MultiplierStarts(log[k].st1.working) : i > 1

\* ------------------------------------------------------------------------
\* Properties of find_best_deals_batch
\* ------------------------------------------------------------------------
\* the stores of a sequence of deals
StoresOf(deals) == {deals[i].store : i \in 1..Len(deals)}

\* the stores find_nearest_store_address was called for in this call
LookedUpStores == {batchCall.lookups[i].store : i \in 1..Len(batchCall.lookups)}

\* what the lookup of this call returned for the store
LookedUp(store) ==
  batchCall.lookups[CHOOSE i \in 1..Len(batchCall.lookups) :
                       batchCall.lookups[i].store = store].address

\* the deals of an item whose store has an address
DealsWithAddress(deals) ==
  SelectSeq(deals, LAMBDA d : d.store \in LookedUpStores /\ HasAddress(LookedUp(d.store)))

\* the options listed for the deals kept: each with its store's address
OptionsMatch(options, kept) ==
  /\ Len(options) = Len(kept)
  /\ \A k \in 1..Len(kept) :
        /\ options[k].store = kept[k].store
        /\ options[k].address = LookedUp(kept[k].store)
        /\ options[k].address # None
        /\ options[k].address # <<>>

\* C14: within one call of find_best_deals_batch the address of a store is
\* looked up at most once, also when the lookup returned no address; the
\* cache holds nothing but the lookups of this call, so it is empty when
\* the call starts; and the options of an item are its deals whose store
\* has a non-empty address, each carrying that address.
C14_OneLookupPerStore ==
  /\ \A i, j \in 1..Len(batchCall.lookups) :
        batchCall.lookups[i].store = batchCall.lookups[j].store => i = j
  /\ DOMAIN batchCall.address_cache = LookedUpStores
  /\ \A st \in LookedUpStores : batchCall.address_cache[st] = LookedUp(st)
  /\ batchCall.pc = "done" =>
        /\ batchCall.result.status = "success"
        /\ \A it \in DOMAIN batchCall.result.summary :
              IF batchCall.result.summary[it].found
                THEN OptionsMatch(batchCall.result.summary[it].options,
                                  DealsWithAddress(batchCall.flyers[it]))
                ELSE DealsWithAddress(batchCall.flyers[it]) = <<>>

\* a second call has returned in which a store named by the deals of two
\* items had no address, and another item has options
C14_Witness ==
  /\ batchCall.pc = "done"
  /\ batchCall.call > 1
  /\ \E st \in LookedUpStores :
        /\ ~HasAddress(LookedUp(st))
        /\ \E a, b \in DOMAIN batchCall.flyers :
              /\ a # b
              /\ st \in StoresOf(batchCall.flyers[a])
              /\ st \in StoresOf(batchCall.flyers[b])
  /\ \E it \in DOMAIN batchCall.result.summary : batchCall.result.summary[it].found

====
